---------------------------- MODULE Spec2Model ----------------------------
(***************************************************************************)
(* Model of nequip/model/_scaling.py: compute_stats and the two rescale    *)
(* configurators RescaleEnergyEtc (global) and PerSpecieRescale.           *)
(*                                                                         *)
(* Strings are sequences of atoms.  The atoms are the words                *)
(*   "dataset" "per" "species" "atom" "mean" "std" "rms" "foo" "energy"    *)
(*   "force" and the underscore "_".                                       *)
(* No atom is a prefix of another, so a Python string over these words     *)
(* has exactly one atom sequence: equality, concatenation, startswith and  *)
(* split("_") on atom sequences agree with the Python string operations.   *)
(*                                                                         *)
(* Floats are exact rationals <<numerator, denominator>>, denominator > 0, *)
(* in lowest terms.  Every Python value carries its type tag t.            *)
(***************************************************************************)
EXTENDS Integers, Sequences, FiniteSets, TLC

VARIABLES
    entry,          \* which function of the file is called
    config,         \* the config object (mutable: tensors in it can be divided in place)
    initialize,     \* the initialize argument
    force,          \* AtomicDataDict.FORCE_KEY in model.irreps_out
    dataset,        \* which dataset the call receives
    pc,             \* position in the called function
    global_scale,   \* local of both configurators
    global_shift,   \* local of both configurators
    scales,         \* local of PerSpecieRescale
    shifts,         \* local of PerSpecieRescale
    str_names,      \* the request list (argument of compute_stats)
    stat_modes,     \* locals of compute_stats ...
    stat_fields,
    stat_strs,
    ids,
    tuple_ids,
    computed_stats, \* the list compute_stats returns
    calls,          \* every dataset.statistics call made so far, with its arguments
    model,          \* the modules inserted into the model by insert_from_parameters
    result,         \* what the called function returned
    error           \* the exception that ended the call, "none" if none

vars == <<entry, config, initialize, force, dataset, pc, global_scale,
          global_shift, scales, shifts, str_names, stat_modes, stat_fields,
          stat_strs, ids, tuple_ids, computed_stats, calls, model, result,
          error>>

\* Longest request list handed directly to compute_stats.
MaxReq == 2

---------------------------------------------------------------------------
\* Rationals

RECURSIVE GCD(_, _)
GCD(a, b) == IF b = 0 THEN a ELSE GCD(b, a % b)

Abs(n) == IF n < 0 THEN -n ELSE n

Norm(q) ==
    LET g == GCD(Abs(q[1]), Abs(q[2]))
        s == IF q[2] < 0 THEN -1 ELSE 1
    IN  IF q[1] = 0 THEN <<0, 1>> ELSE <<(s * q[1]) \div g, (s * q[2]) \div g>>

RDiv(a, b) == Norm(<<a[1] * b[2], a[2] * b[1]>>)

RLess(a, b) == a[1] * b[2] < b[1] * a[2]

---------------------------------------------------------------------------
\* Python values

Absent == [t |-> "absent", v |-> <<>>]       \* the key is not in config
NoneV == [t |-> "None", v |-> <<>>]
Str(s) == [t |-> "str", v |-> s]
Float(n, d) == [t |-> "float", v |-> <<n, d>>]
IntV(n) == [t |-> "int", v |-> <<n, 1>>]
Tensor(qs) == [t |-> "tensor", v |-> qs]     \* a 0-dim tensor has one entry
ListV(qs) == [t |-> "list", v |-> qs]
BoolV(b) == [t |-> "bool", v |-> IF b THEN <<1, 1>> ELSE <<0, 1>>]
DictV == [t |-> "dict", v |-> <<>>]          \* a value of no accepted type

\* config.get(key, default)
Get(cfg, key, default) == IF cfg[key].t = "absent" THEN default ELSE cfg[key]

\* isinstance(value, t)
IsInstance(value, t) == value.t = t

---------------------------------------------------------------------------
\* Strings

U == "_"
DATASET_ == <<"dataset", U>>
PER_SPECIES_ == <<"per", U, "species", U>>
PER_ATOM_ == <<"per", U, "atom", U>>
MEAN_STD == <<"mean", U, "std">>
RMS == <<"rms">>

StartsWith(s, p) == Len(s) >= Len(p) /\ SubSeq(s, 1, Len(p)) = p

Drop(s, n) == SubSeq(s, n + 1, Len(s))

\* s.split("_")
RECURSIVE Split(_)
Split(s) ==
    IF \A i \in 1..Len(s) : s[i] # U
    THEN <<s>>
    ELSE LET i == CHOOSE j \in 1..Len(s) :
                      s[j] = U /\ \A k \in 1..(j - 1) : s[k] # U
         IN  <<SubSeq(s, 1, i - 1)>> \o Split(Drop(s, i))

\* "_".join(tokens)
RECURSIVE Join(_)
Join(tokens) ==
    IF tokens = <<>> THEN <<>>
    ELSE IF Len(tokens) = 1 THEN tokens[1]
    ELSE tokens[1] \o <<U>> \o Join(Tail(tokens))

\* s.index(x): the first position (1-based here) holding x
Index(s, x) == CHOOSE i \in 1..Len(s) : s[i] = x /\ \A k \in 1..(i - 1) : s[k] # x

Contains(s, x) == \E i \in 1..Len(s) : s[i] = x


---------------------------------------------------------------------------
\* compute_stats: parsing one request string (lines 23-44)

\* lines 24-25
StripDataset(name) == IF StartsWith(name, DATASET_) THEN Drop(name, Len(DATASET_)) ELSE name

\* lines 27-33: the granularity prefix of a name whose dataset_ prefix is gone
PrefixOf(name) ==
    IF StartsWith(name, PER_SPECIES_) THEN PER_SPECIES_
    ELSE IF StartsWith(name, PER_ATOM_) THEN PER_ATOM_
    ELSE <<>>

\* lines 24-36: prefix, stat and field of a request string
ParseName(name) ==
    LET n1 == StripDataset(name)
        prefix == PrefixOf(n1)
        n2 == Drop(n1, Len(prefix))
        toks == Split(n2)
    IN  [prefix |-> prefix,
         stat |-> toks[Len(toks)],
         field |-> Join(SubSeq(toks, 1, Len(toks) - 1))]

\* Mutation of Supported: the else branch of line 43 does not raise, an unknown
\* stat falls through as an rms request
Supported_UnknownFallsThrough(stat) == stat = stat

\* lines 37, 40, 43: the stats that do not raise
Supported(stat) == stat \in {<<"mean">>, <<"std">>, <<"rms">>}

\* lines 38, 41
StatMode(p) ==
    IF p.stat \in {<<"mean">>, <<"std">>} THEN p.prefix \o MEAN_STD ELSE p.prefix \o RMS

\* lines 39, 42: the key of the slot, field and mode concatenated
StatStr(p) == p.field \o StatMode(p)

\* line 21 (0-based, as in the code)
tuple_id_map(stat) == IF stat = <<"std">> THEN 1 ELSE 0

---------------------------------------------------------------------------
\* The dataset: dataset.statistics (nequip.data), one result tuple per
\* (field, mode): (mean, std) for a mean_std mode, (rms,) for an rms mode.
\*   "varied"     floats for global modes, tensors for per_* modes
\*   "degenerate" a dataset without variation: std and rms are 1e-8
\*   "tensors"    like "degenerate", the global statistics are 0-dim tensors

DatasetIds == {"varied", "degenerate", "tensors"}

IsMeanStd(mode) ==
    Len(mode) >= Len(MEAN_STD)
    /\ SubSeq(mode, Len(mode) - Len(MEAN_STD) + 1, Len(mode)) = MEAN_STD

DatasetStatistics(ds, field, mode) ==
    LET per == StartsWith(mode, <<"per", U>>)
        tiny == <<1, 100000000>>
        m == <<Len(field) + 2, 1>>
    IN  IF per
        THEN IF ds = "degenerate"
             THEN IF IsMeanStd(mode)
                  THEN <<Tensor(<<m, m>>), Tensor(<<tiny, tiny>>)>>
                  ELSE <<Tensor(<<tiny, tiny>>)>>
             ELSE IF IsMeanStd(mode)
                  THEN <<Tensor(<<m, <<7, 1>>>>), Tensor(<<<<2, 1>>, <<4, 1>>>>)>>
                  ELSE <<Tensor(<<<<2, 1>>, <<4, 1>>>>)>>
        ELSE CASE ds = "varied" ->
                    IF IsMeanStd(mode)
                    THEN <<Float(m[1], 1), Float(2, 1)>>
                    ELSE <<Float(2, 1)>>
               [] ds = "degenerate" ->
                    IF IsMeanStd(mode)
                    THEN <<Float(m[1], 1), Float(tiny[1], tiny[2])>>
                    ELSE <<Float(tiny[1], tiny[2])>>
               [] ds = "tensors" ->
                    IF IsMeanStd(mode)
                    THEN <<Tensor(<<m>>), Tensor(<<tiny>>)>>
                    ELSE <<Tensor(<<tiny>>)>>

---------------------------------------------------------------------------
\* Python's a / b and a /= b on the values above; [t |-> "raise"] where it raises

Raise(kind) == [t |-> "raise", v |-> kind]

IsNumber(x) == x.t \in {"float", "int"}

Divide(a, b) ==
    CASE IsNumber(a) /\ IsNumber(b) ->
            IF b.v[1] = 0 THEN Raise("ZeroDivisionError")
            ELSE [t |-> "float", v |-> RDiv(a.v, b.v)]
      [] a.t = "tensor" /\ IsNumber(b) ->
            Tensor([i \in 1..Len(a.v) |-> RDiv(a.v[i], b.v)])
      [] a.t = "tensor" /\ b.t = "tensor" ->
            IF Len(b.v) = 1
            THEN Tensor([i \in 1..Len(a.v) |-> RDiv(a.v[i], b.v[1])])
            ELSE IF Len(b.v) = Len(a.v)
            THEN Tensor([i \in 1..Len(a.v) |-> RDiv(a.v[i], b.v[i])])
            ELSE Raise("RuntimeError")
      [] IsNumber(a) /\ b.t = "tensor" ->
            Tensor([i \in 1..Len(b.v) |-> RDiv(a.v, b.v[i])])
      [] OTHER -> Raise("TypeError")

---------------------------------------------------------------------------
\* The calls the model explores

\* Request strings handed directly to compute_stats
Names ==
    { <<"energy", U, "mean">>,
      <<"energy", U, "std">>,
      <<"dataset", U, "energy", U, "mean">>,
      <<"per", U, "species", U, "energy", U, "mean">>,
      <<"per", U, "atom", U, "energy", U, "std">>,
      <<"dataset", U, "force", U, "rms">>,
      <<"energy", U, "rms">>,
      <<"energy", U, "foo">>,
      <<"energy", "per", U, "species", U, U, "std">> }

RECURSIVE SeqsUpTo(_, _)
SeqsUpTo(S, n) ==
    IF n = 0 THEN {<<>>}
    ELSE LET shorter == SeqsUpTo(S, n - 1)
         IN  shorter \cup {Append(s, x) : s \in shorter, x \in S}

\* Values of global_rescale_scale / global_rescale_shift for RescaleEnergyEtc
GlobalScaleSources ==
    { Absent, NoneV, DictV, IntV(1), Float(2, 1), Float(1, 100000000),
      Tensor(<<<<2, 1>>>>),
      Str(<<"dataset", U, "energy", U, "std">>),
      Str(<<"dataset", U, "energy", U, "foo">>) }

GlobalShiftSources ==
    { Absent, NoneV, DictV, IntV(1), Float(1, 1),
      Str(<<"dataset", U, "energy", U, "std">>),
      Str(<<"energy", U, "mean">>) }

\* Values of the config keys PerSpecieRescale reads
PerSpeciesScaleSources ==
    { Absent, NoneV, Float(2, 1), ListV(<<<<2, 1>>, <<4, 1>>>>),
      Tensor(<<<<2, 1>>, <<4, 1>>>>),
      Str(<<"dataset", U, "per", U, "species", U, "energy", U, "std">>),
      Str(<<"dataset", U, "per", U, "atom", U, "energy", U, "foo">>) }

PerSpeciesShiftSources ==
    { Absent, NoneV, Float(1, 1),
      Str(<<"dataset", U, "per", U, "species", U, "energy", U, "std">>),
      Str(<<"dataset", U, "per", U, "species", U, "energy", U, "mean">>) }

PerSpeciesGlobalScaleSources ==
    { Absent, NoneV, Float(2, 1), Tensor(<<<<2, 1>>, <<4, 1>>, <<8, 1>>>>),
      Str(<<"dataset", U, "per", U, "species", U, "energy", U, "std">>) }

PerSpeciesGlobalShiftSources == { Absent, NoneV, Float(1, 1) }

TrainableFlags == { Absent, BoolV(TRUE) }

EmptyConfig ==
    [global_rescale_scale |-> Absent,
     global_rescale_shift |-> Absent,
     PerSpeciesScaleShift_scales |-> Absent,
     PerSpeciesScaleShift_shifts |-> Absent,
     trainable_global_rescale_shift |-> Absent,
     trainable_global_rescale_scale |-> Absent,
     dataset_statistics_stride |-> IntV(1)]

NoResult == [kind |-> "none", val |-> <<>>]

\* The state at the call: nothing computed, nothing inserted
Fresh ==
    /\ global_scale = NoneV
    /\ global_shift = NoneV
    /\ scales = NoneV
    /\ shifts = NoneV
    /\ stat_modes = <<>>
    /\ stat_fields = <<>>
    /\ stat_strs = <<>>
    /\ ids = <<>>
    /\ tuple_ids = <<>>
    /\ computed_stats = <<>>
    /\ calls = <<>>
    /\ model = <<>>
    /\ result = NoResult
    /\ error = "none"

InitComputeStats ==
    /\ entry = "compute_stats"
    /\ config = EmptyConfig
    /\ initialize = TRUE
    /\ force = FALSE
    /\ str_names \in SeqsUpTo(Names, MaxReq)
    /\ pc = "parse"

InitRescaleEnergyEtc ==
    /\ entry = "RescaleEnergyEtc"
    /\ \E sc \in GlobalScaleSources, sh \in GlobalShiftSources,
          t1 \in TrainableFlags, t2 \in TrainableFlags :
          config = [EmptyConfig EXCEPT !.global_rescale_scale = sc,
                                       !.global_rescale_shift = sh,
                                       !.trainable_global_rescale_shift = t1,
                                       !.trainable_global_rescale_scale = t2]
    /\ initialize \in BOOLEAN
    /\ force \in BOOLEAN
    /\ str_names = <<>>
    /\ pc = "RescaleEnergyEtc"

InitPerSpecieRescale ==
    /\ entry = "PerSpecieRescale"
    /\ \E sc \in PerSpeciesScaleSources, sh \in PerSpeciesShiftSources,
          gsc \in PerSpeciesGlobalScaleSources, gsh \in PerSpeciesGlobalShiftSources :
          config = [EmptyConfig EXCEPT !.PerSpeciesScaleShift_scales = sc,
                                       !.PerSpeciesScaleShift_shifts = sh,
                                       !.global_rescale_scale = gsc,
                                       !.global_rescale_shift = gsh]
    /\ initialize \in BOOLEAN
    /\ force \in BOOLEAN
    /\ str_names = <<>>
    /\ pc = "PerSpecieRescale"

Init ==
    /\ dataset \in DatasetIds
    /\ Fresh
    /\ \/ InitComputeStats
       \/ InitRescaleEnergyEtc
       \/ InitPerSpecieRescale

---------------------------------------------------------------------------
\* compute_stats (lines 11-60)

\* An exception leaves the called function: nothing is returned
Fail(kind) ==
    /\ pc' = "error"
    /\ error' = kind

\* One iteration of the loop of lines 22-53, on str_names[Len(tuple_ids) + 1]
ParseRequest ==
    /\ pc = "parse"
    /\ Len(tuple_ids) < Len(str_names)
    /\ LET p == ParseName(str_names[Len(tuple_ids) + 1])
           stat_str == StatStr(p)
       IN  IF ~Supported(p.stat)
           THEN \* line 44
                /\ Fail("UnsupportedStatisticKind")
                /\ UNCHANGED <<stat_modes, stat_fields, stat_strs, ids, tuple_ids>>
           ELSE /\ IF Contains(stat_strs, stat_str)
                   THEN \* line 47 (0-based ids)
                        /\ ids' = Append(ids, Index(stat_strs, stat_str) - 1)
                        /\ UNCHANGED <<stat_strs, stat_modes, stat_fields>>
                   ELSE \* lines 49-52
                        /\ ids' = Append(ids, Len(stat_strs))
                        /\ stat_strs' = Append(stat_strs, stat_str)
                        /\ stat_modes' = Append(stat_modes, StatMode(p))
                        /\ stat_fields' = Append(stat_fields, p.field)
                \* line 53
                /\ tuple_ids' = Append(tuple_ids, tuple_id_map(p.stat))
                /\ UNCHANGED <<pc, error>>
    /\ UNCHANGED <<entry, config, initialize, force, dataset, global_scale,
                   global_shift, scales, shifts, str_names, computed_stats,
                   calls, model, result>>

\* The arguments of the call of lines 55-59
StatisticsCall ==
    [fields |-> stat_fields,
     modes |-> stat_modes,
     stride |-> config.dataset_statistics_stride]

\* line 60, from the values dataset.statistics returned
Returned(values) ==
    [i \in 1..Len(ids) |-> values[ids[i] + 1][tuple_ids[i] + 1]]

\* Where compute_stats returns to
AfterComputeStats ==
    CASE entry = "compute_stats" -> "done"
      [] entry = "RescaleEnergyEtc" -> "RescaleEnergyEtc_substitute"
      [] entry = "PerSpecieRescale" -> "PerSpecieRescale_substitute"

\* Lines 55-60: the loop is over, dataset.statistics is called and returns
Statistics ==
    /\ pc = "parse"
    /\ Len(tuple_ids) = Len(str_names)
    /\ calls' = Append(calls, StatisticsCall)
    /\ LET values == [s \in 1..Len(stat_fields) |->
                         DatasetStatistics(dataset, stat_fields[s], stat_modes[s])]
       IN  computed_stats' = Returned(values)
    /\ pc' = AfterComputeStats
    /\ result' = IF entry = "compute_stats"
                 THEN [kind |-> "list", val |-> computed_stats']
                 ELSE result
    /\ UNCHANGED <<entry, config, initialize, force, dataset, global_scale,
                   global_shift, scales, shifts, str_names, stat_modes,
                   stat_fields, stat_strs, ids, tuple_ids, model, error>>

\* Lines 55-59: dataset.statistics is called and raises
StatisticsRaises ==
    /\ pc = "parse"
    /\ Len(tuple_ids) = Len(str_names)
    /\ calls' = Append(calls, StatisticsCall)
    /\ Fail("DatasetError")
    /\ UNCHANGED <<entry, config, initialize, force, dataset, global_scale,
                   global_shift, scales, shifts, str_names, stat_modes,
                   stat_fields, stat_strs, ids, tuple_ids, computed_stats,
                   model, result>>

---------------------------------------------------------------------------
\* Helpers shared by the two configurators

\* lines 75-77, 169: the default of global_rescale_scale
DefaultScale ==
    IF force THEN Str(<<"dataset", U, "force", U, "rms">>)
    ELSE Str(<<"dataset", U, "energy", U, "std">>)

\* lines 86-96, 184-195: the branch a value takes in the validation loop;
\* literals are the types the elif accepts
Accepted(value, literals) ==
    \/ IsInstance(value, "str")
    \/ global_scale.t = "None"
    \/ \E t \in literals : IsInstance(value, t)

\* lines 84-87, 182-185: the strings among the sources, in order
StrNames(values) ==
    LET strs == SelectSeq(values, LAMBDA x : IsInstance(x, "str"))
    IN  [i \in 1..Len(strs) |-> strs[i].v]

\* lines 105-108, 204-209: a string source is replaced by its computed value
Substituted(value) ==
    IF IsInstance(value, "str")
    THEN computed_stats[Index(str_names, value.v)]
    ELSE value

\* model.irreps_out: an energy model, with forces when wrapped by ForceOutput
IrrepsOut ==
    {"total_energy", "atomic_energy"} \cup (IF force THEN {"forces"} ELSE {})

---------------------------------------------------------------------------
\* RescaleEnergyEtc (lines 63-149)

\* Mutation of RESCALE_THRESHOLD: 1e-9 for 1e-6
RESCALE_THRESHOLD_TooLow == <<1, 1000000000>>

\* line 110
RESCALE_THRESHOLD == <<1, 1000000>>

\* lines 73-83
RescaleEnergyEtc_Start ==
    /\ pc = "RescaleEnergyEtc"
    /\ global_scale' = Get(config, "global_rescale_scale", DefaultScale)
    /\ global_shift' = Get(config, "global_rescale_shift",
                           Str(<<"dataset", U, "energy", U, "mean">>))
    /\ pc' = IF initialize THEN "RescaleEnergyEtc_validate" ELSE "RescaleEnergyEtc_dummy"
    /\ UNCHANGED <<entry, config, initialize, force, dataset, scales, shifts,
                   str_names, stat_modes, stat_fields, stat_strs, ids,
                   tuple_ids, computed_stats, calls, model, result, error>>

\* lines 84-96, up to the call of compute_stats
RescaleEnergyEtc_Validate ==
    /\ pc = "RescaleEnergyEtc_validate"
    /\ LET values == <<global_scale, global_shift>>
       IN  IF \A i \in 1..Len(values) : Accepted(values[i], {"float", "tensor"})
           THEN /\ str_names' = StrNames(values)
                /\ pc' = "parse"
                /\ UNCHANGED error
           ELSE \* line 96
                /\ Fail("InvalidScaleSourceType")
                /\ UNCHANGED str_names
    /\ UNCHANGED <<entry, config, initialize, force, dataset, global_scale,
                   global_shift, scales, shifts, stat_modes, stat_fields,
                   stat_strs, ids, tuple_ids, computed_stats, calls, model,
                   result>>

\* lines 105-108
RescaleEnergyEtc_Substitute ==
    /\ pc = "RescaleEnergyEtc_substitute"
    /\ global_scale' = Substituted(global_scale)
    /\ global_shift' = Substituted(global_shift)
    /\ pc' = "RescaleEnergyEtc_check"
    /\ UNCHANGED <<entry, config, initialize, force, dataset, scales, shifts,
                   str_names, stat_modes, stat_fields, stat_strs, ids,
                   tuple_ids, computed_stats, calls, model, result, error>>

\* lines 110-118
RescaleEnergyEtc_Check ==
    /\ pc = "RescaleEnergyEtc_check"
    /\ IF IsInstance(global_scale, "float") /\ RLess(global_scale.v, RESCALE_THRESHOLD)
       THEN Fail("DegenerateScaleError")
       ELSE /\ pc' = "RescaleEnergyEtc_build"
            /\ UNCHANGED error
    /\ UNCHANGED <<entry, config, initialize, force, dataset, global_scale,
                   global_shift, scales, shifts, str_names, stat_modes,
                   stat_fields, stat_strs, ids, tuple_ids, computed_stats,
                   calls, model, result>>

\* Mutation of RescaleEnergyEtc_Dummy: the shift placeholder is 1.0, as in
\* PerSpecieRescale
RescaleEnergyEtc_Dummy_ShiftOne ==
    /\ pc = "RescaleEnergyEtc_dummy"
    /\ global_shift' = IF global_shift.t # "None" THEN Float(1, 1) ELSE global_shift
    /\ global_scale' = IF global_scale.t # "None" THEN Float(1, 1) ELSE global_scale
    /\ pc' = "RescaleEnergyEtc_build"
    /\ UNCHANGED <<entry, config, initialize, force, dataset, scales, shifts,
                   str_names, stat_modes, stat_fields, stat_strs, ids,
                   tuple_ids, computed_stats, calls, model, result, error>>

\* lines 119-124
RescaleEnergyEtc_Dummy ==
    /\ pc = "RescaleEnergyEtc_dummy"
    /\ global_shift' = IF global_shift.t # "None" THEN Float(0, 1) ELSE global_shift
    /\ global_scale' = IF global_scale.t # "None" THEN Float(1, 1) ELSE global_scale
    /\ pc' = "RescaleEnergyEtc_build"
    /\ UNCHANGED <<entry, config, initialize, force, dataset, scales, shifts,
                   str_names, stat_modes, stat_fields, stat_strs, ids,
                   tuple_ids, computed_stats, calls, model, result, error>>

\* lines 127-149
RescaleEnergyEtc_Build ==
    /\ pc = "RescaleEnergyEtc_build"
    /\ result' =
         [kind |-> "RescaleOutput",
          val |-> [scale_keys |-> SelectSeq(<<"total_energy", "atomic_energy", "forces">>,
                                            LAMBDA k : k \in IrrepsOut),
                   scale_by |-> global_scale,
                   shift_keys |-> SelectSeq(<<"total_energy">>, LAMBDA k : k \in IrrepsOut),
                   shift_by |-> global_shift,
                   trainable_global_rescale_shift |->
                       Get(config, "trainable_global_rescale_shift", BoolV(FALSE)),
                   trainable_global_rescale_scale |->
                       Get(config, "trainable_global_rescale_scale", BoolV(FALSE))]]
    /\ pc' = "done"
    /\ UNCHANGED <<entry, config, initialize, force, dataset, global_scale,
                   global_shift, scales, shifts, str_names, stat_modes,
                   stat_fields, stat_strs, ids, tuple_ids, computed_stats,
                   calls, model, error>>

---------------------------------------------------------------------------
\* PerSpecieRescale (lines 152-238)

\* lines 222-235: the arguments insert_from_parameters receives, the whole of
\* what the builder of the module can read
InsertArguments ==
    [into |-> IF force THEN "model.func" ELSE "model",
     after |-> "total_energy_sum",
     shared_params |-> config,
     name |-> "per_species_scale_shift",
     builder |-> "PerSpeciesScaleShift",
     params |-> [field |-> "atomic_energy", out_field |-> "atomic_energy"],
     prepend |-> TRUE]

\* Mutation of PerSpecieRescale_Start: the conflict check of lines 175-176 sits
\* inside the initialize branch
PerSpecieRescale_Start_CheckWhenInitialize ==
    /\ pc = "PerSpecieRescale"
    /\ global_scale' = Get(config, "global_rescale_scale", DefaultScale)
    /\ global_shift' = Get(config, "global_rescale_shift", NoneV)
    /\ scales' = Get(config, "PerSpeciesScaleShift_scales", NoneV)
    /\ shifts' = Get(config, "PerSpeciesScaleShift_shifts", NoneV)
    /\ IF initialize /\ global_shift'.t # "None"
       THEN Fail("ConflictingShiftConfigError")
       ELSE /\ pc' = IF initialize THEN "PerSpecieRescale_validate"
                     ELSE "PerSpecieRescale_dummy"
            /\ UNCHANGED error
    /\ UNCHANGED <<entry, config, initialize, force, dataset, str_names,
                   stat_modes, stat_fields, stat_strs, ids, tuple_ids,
                   computed_stats, calls, model, result>>

\* lines 162-181
PerSpecieRescale_Start ==
    /\ pc = "PerSpecieRescale"
    /\ global_scale' = Get(config, "global_rescale_scale", DefaultScale)
    /\ global_shift' = Get(config, "global_rescale_shift", NoneV)
    /\ scales' = Get(config, "PerSpeciesScaleShift_scales", NoneV)
    /\ shifts' = Get(config, "PerSpeciesScaleShift_shifts", NoneV)
    /\ IF global_shift'.t # "None"
       THEN \* line 176
            Fail("ConflictingShiftConfigError")
       ELSE /\ pc' = IF initialize THEN "PerSpecieRescale_validate"
                     ELSE "PerSpecieRescale_dummy"
            /\ UNCHANGED error
    /\ UNCHANGED <<entry, config, initialize, force, dataset, str_names,
                   stat_modes, stat_fields, stat_strs, ids, tuple_ids,
                   computed_stats, calls, model, result>>

\* lines 182-195, up to the call of compute_stats
PerSpecieRescale_Validate ==
    /\ pc = "PerSpecieRescale_validate"
    /\ LET values == <<scales, shifts, global_scale>>
       IN  IF \A i \in 1..Len(values) : Accepted(values[i], {"float", "list", "tensor"})
           THEN /\ str_names' = StrNames(values)
                /\ pc' = "parse"
                /\ UNCHANGED error
           ELSE \* line 195
                /\ Fail("InvalidScaleSourceType")
                /\ UNCHANGED str_names
    /\ UNCHANGED <<entry, config, initialize, force, dataset, global_scale,
                   global_shift, scales, shifts, stat_modes, stat_fields,
                   stat_strs, ids, tuple_ids, computed_stats, calls, model,
                   result>>

\* Mutation of PerSpecieRescale_Substitute: the module is inserted before the
\* scales are normalized
PerSpecieRescale_Substitute_InsertsFirst ==
    /\ pc = "PerSpecieRescale_substitute"
    /\ model' = Append(model, InsertArguments)
    /\ scales' = Substituted(scales)
    /\ shifts' = Substituted(shifts)
    /\ global_scale' = Substituted(global_scale)
    /\ pc' = "PerSpecieRescale_normalize"
    /\ UNCHANGED <<entry, config, initialize, force, dataset, global_shift,
                   str_names, stat_modes, stat_fields, stat_strs, ids,
                   tuple_ids, computed_stats, calls, result, error>>

\* lines 204-209
PerSpecieRescale_Substitute ==
    /\ pc = "PerSpecieRescale_substitute"
    /\ scales' = Substituted(scales)
    /\ shifts' = Substituted(shifts)
    /\ global_scale' = Substituted(global_scale)
    /\ pc' = "PerSpecieRescale_normalize"
    /\ UNCHANGED <<entry, config, initialize, force, dataset, global_shift,
                   str_names, stat_modes, stat_fields, stat_strs, ids,
                   tuple_ids, computed_stats, calls, model, result, error>>

\* Two string sources name the same element of the same result tuple: after
\* the substitution the two locals are one object
SameObject(src1, src2) ==
    /\ IsInstance(src1, "str")
    /\ IsInstance(src2, "str")
    /\ LET i == Index(str_names, src1.v)
           j == Index(str_names, src2.v)
       IN  ids[i] = ids[j] /\ tuple_ids[i] = tuple_ids[j]

\* lines 211-212.  On a tensor, /= divides in place: every other reference to
\* the tensor (the config entry it was read from, the entry of computed_stats,
\* a local substituted from the same entry) sees the quotient.  On any other
\* type it rebinds the local.
PerSpecieRescale_Normalize ==
    /\ pc = "PerSpecieRescale_normalize"
    /\ IF global_scale.t = "None"
       THEN /\ pc' = "PerSpecieRescale_insert"
            /\ UNCHANGED <<scales, shifts, global_scale, config, computed_stats, error>>
       ELSE LET q == Divide(scales, global_scale)
                src == Get(config, "PerSpeciesScaleShift_scales", NoneV)
                shiftSrc == Get(config, "PerSpeciesScaleShift_shifts", NoneV)
                scaleSrc == Get(config, "global_rescale_scale", DefaultScale)
                inPlace == IsInstance(scales, "tensor")
            IN  IF q.t = "raise"
                THEN /\ Fail(q.v)
                     /\ UNCHANGED <<scales, shifts, global_scale, config, computed_stats>>
                ELSE /\ pc' = "PerSpecieRescale_insert"
                     /\ scales' = q
                     /\ config' =
                          IF inPlace /\ IsInstance(src, "tensor")
                          THEN [config EXCEPT !.PerSpeciesScaleShift_scales = q]
                          ELSE config
                     /\ shifts' =
                          IF inPlace /\ SameObject(src, shiftSrc) THEN q ELSE shifts
                     /\ global_scale' =
                          IF inPlace /\ SameObject(src, scaleSrc) THEN q ELSE global_scale
                     /\ computed_stats' =
                          IF inPlace /\ IsInstance(src, "str")
                          THEN [j \in 1..Len(computed_stats) |->
                                   IF SameObject(src, Str(str_names[j]))
                                   THEN q ELSE computed_stats[j]]
                          ELSE computed_stats
                     /\ UNCHANGED error
    /\ UNCHANGED <<entry, initialize, force, dataset, global_shift, str_names,
                   stat_modes, stat_fields, stat_strs, ids, tuple_ids, calls,
                   model, result>>

\* lines 214-219
PerSpecieRescale_Dummy ==
    /\ pc = "PerSpecieRescale_dummy"
    /\ scales' = IF scales.t # "None" THEN Float(1, 1) ELSE scales
    /\ shifts' = IF shifts.t # "None" THEN Float(1, 1) ELSE shifts
    /\ pc' = "PerSpecieRescale_insert"
    /\ UNCHANGED <<entry, config, initialize, force, dataset, global_scale,
                   global_shift, str_names, stat_modes, stat_fields, stat_strs,
                   ids, tuple_ids, computed_stats, calls, model, result, error>>

\* lines 222-238
PerSpecieRescale_Insert ==
    /\ pc = "PerSpecieRescale_insert"
    /\ model' = Append(model, InsertArguments)
    /\ result' = [kind |-> "model", val |-> model']
    /\ pc' = "done"
    /\ UNCHANGED <<entry, config, initialize, force, dataset, global_scale,
                   global_shift, scales, shifts, str_names, stat_modes,
                   stat_fields, stat_strs, ids, tuple_ids, computed_stats,
                   calls, error>>

---------------------------------------------------------------------------

Next ==
    \/ ParseRequest
    \/ Statistics
    \/ StatisticsRaises
    \/ RescaleEnergyEtc_Start
    \/ RescaleEnergyEtc_Validate
    \/ RescaleEnergyEtc_Substitute
    \/ RescaleEnergyEtc_Check
    \/ RescaleEnergyEtc_Dummy
    \/ RescaleEnergyEtc_Build
    \/ PerSpecieRescale_Start
    \/ PerSpecieRescale_Validate
    \/ PerSpecieRescale_Substitute
    \/ PerSpecieRescale_Normalize
    \/ PerSpecieRescale_Dummy
    \/ PerSpecieRescale_Insert

Spec == Init /\ [][Next]_vars

---------------------------------------------------------------------------
\* The request grammar, read off the request string itself: an optional
\* dataset_ prefix, an optional granularity prefix, a field, and the kind
\* after the last underscore.

LastU(s) ==
    IF \E i \in 1..Len(s) : s[i] = U
    THEN CHOOSE i \in 1..Len(s) : s[i] = U /\ \A k \in (i + 1)..Len(s) : s[k] # U
    ELSE 0

ReqKind(name) == Drop(name, LastU(name))

ReqBody(name) ==
    IF Len(name) >= 2 /\ name[1] = "dataset" /\ name[2] = U THEN Drop(name, 2) ELSE name

ReqGran(name) ==
    LET b == ReqBody(name)
    IN  IF Len(b) >= 4 /\ b[1] = "per" /\ b[2] = U /\ b[3] \in {"species", "atom"} /\ b[4] = U
        THEN SubSeq(b, 1, 4)
        ELSE <<>>

ReqField(name) ==
    LET r == Drop(ReqBody(name), Len(ReqGran(name)))
    IN  IF LastU(r) = 0 THEN <<>> ELSE SubSeq(r, 1, LastU(r) - 1)

ReqFamily(name) ==
    IF ReqKind(name) \in {<<"mean">>, <<"std">>} THEN <<"mean", U, "std">> ELSE <<"rms">>

KnownKind(name) == ReqKind(name) \in {<<"mean">>, <<"std">>, <<"rms">>}

\* compute_stats has just returned its list
JustReturned ==
    \/ entry = "compute_stats" /\ pc = "done"
    \/ pc \in {"RescaleEnergyEtc_substitute", "PerSpecieRescale_substitute"}

\* The tuple dataset.statistics returned for the slot (0-based) of the one call
SlotTuple(slot) ==
    DatasetStatistics(dataset, calls[1].fields[slot + 1], calls[1].modes[slot + 1])

---------------------------------------------------------------------------
\* C1: whenever compute_stats returns, dataset.statistics was invoked exactly
\* once; every mean or std request is served by a slot whose field is the
\* request's field and whose mode is its granularity prefix plus mean_std,
\* that slot is the only one with this field and mode, and mean and std
\* requests of one field and granularity share it; a mean request returns
\* element 0, a std request element 1 and an rms request element 0 of the
\* tuple of its slot.
C1_MeanStdShareOneSlot ==
    JustReturned =>
        /\ Len(calls) = 1
        /\ Len(computed_stats) = Len(str_names)
        /\ \A i \in 1..Len(str_names) :
              LET n == str_names[i]
              IN  /\ ReqKind(n) \in {<<"mean">>, <<"std">>} =>
                        /\ calls[1].fields[ids[i] + 1] = ReqField(n)
                        /\ calls[1].modes[ids[i] + 1] = ReqGran(n) \o <<"mean", U, "std">>
                        /\ Cardinality({s \in 1..Len(calls[1].fields) :
                                           /\ calls[1].fields[s] = ReqField(n)
                                           /\ calls[1].modes[s] = calls[1].modes[ids[i] + 1]}) = 1
                        /\ computed_stats[i] =
                              SlotTuple(ids[i])[IF ReqKind(n) = <<"mean">> THEN 1 ELSE 2]
                  /\ ReqKind(n) = <<"rms">> => computed_stats[i] = SlotTuple(ids[i])[1]
        /\ \A i, j \in 1..Len(str_names) :
              /\ ReqKind(str_names[i]) \in {<<"mean">>, <<"std">>}
              /\ ReqKind(str_names[j]) \in {<<"mean">>, <<"std">>}
              /\ ReqField(str_names[i]) = ReqField(str_names[j])
              /\ ReqGran(str_names[i]) = ReqGran(str_names[j])
              => ids[i] = ids[j]

\* C9: whenever compute_stats returns, two requests share a slot exactly when
\* they agree on field, granularity and mode family; the (field, mode) pairs
\* passed to dataset.statistics hold no pair twice and stand in the order of
\* their first occurrence in the request list.
C9_SlotIffSameFieldGranularityFamily ==
    JustReturned =>
        /\ \A i, j \in 1..Len(str_names) :
              ids[i] = ids[j] <=>
                  /\ ReqField(str_names[i]) = ReqField(str_names[j])
                  /\ ReqGran(str_names[i]) = ReqGran(str_names[j])
                  /\ ReqFamily(str_names[i]) = ReqFamily(str_names[j])
        /\ \A s, t \in 1..Len(calls[1].fields) :
              s # t => <<calls[1].fields[s], calls[1].modes[s]>>
                          # <<calls[1].fields[t], calls[1].modes[t]>>
        /\ \A s \in 1..Len(calls[1].fields) :
              /\ \E i \in 1..Len(str_names) : ids[i] + 1 = s
              /\ LET first == CHOOSE i \in 1..Len(str_names) :
                                 ids[i] + 1 = s /\ \A k \in 1..(i - 1) : ids[k] + 1 # s
                 IN  /\ calls[1].fields[s] = ReqField(str_names[first])
                     /\ calls[1].modes[s] =
                           ReqGran(str_names[first]) \o ReqFamily(str_names[first])
                     /\ \A k \in 1..(first - 1) : ids[k] + 1 < s

\* C2: a request list holding a request of unknown kind, at any position, never
\* reaches dataset.statistics: the loop does not complete, no call is made, and
\* the only way the call ends is the unsupported-statistic-kind error.
C2_UnknownKindFailsBeforeDataset ==
    (\E i \in 1..Len(str_names) : ~KnownKind(str_names[i])) =>
        /\ calls = <<>>
        /\ pc \in {"parse", "error"}
        /\ pc = "parse" => Len(tuple_ids) < Len(str_names)
        /\ pc = "error" => error = "UnsupportedStatisticKind"
        /\ result = NoResult

\* C2 happens: a valid request, then one of unknown kind, and the call has failed
C2_Witness ==
    /\ entry = "compute_stats"
    /\ Len(str_names) = 2
    /\ KnownKind(str_names[1])
    /\ ~KnownKind(str_names[2])
    /\ pc = "error"
    /\ error = "UnsupportedStatisticKind"
    /\ Len(tuple_ids) = 1
    /\ calls = <<>>

\* The sources a configurator call reads, defaults included
ScaleSource == Get(config, "global_rescale_scale", DefaultScale)
GlobalShiftSource ==
    Get(config, "global_rescale_shift", Str(<<"dataset", U, "energy", U, "mean">>))
Sources ==
    IF entry = "RescaleEnergyEtc"
    THEN {ScaleSource, GlobalShiftSource}
    ELSE {ScaleSource,
          Get(config, "PerSpeciesScaleShift_scales", NoneV),
          Get(config, "PerSpeciesScaleShift_shifts", NoneV)}

\* C3: when no statistic is requested dataset.statistics is never invoked:
\* compute_stats on the empty list returns the empty list without a call, and
\* a configurator call with initialize true and no string source makes no call.
C3_NoRequestNoDatasetCall ==
    /\ entry = "compute_stats" /\ str_names = <<>> =>
          /\ calls = <<>>
          /\ pc = "done" => result.val = <<>>
    /\ entry # "compute_stats" /\ initialize /\ (\A s \in Sources : s.t # "str") =>
          calls = <<>>

\* C4: RescaleEnergyEtc with initialize false never invokes dataset.statistics
\* and never fails; the wrapper it returns has scale_by 1.0 when the scale
\* source is not None and None when it is, shift_by 0.0 when the shift source
\* is not None and None when it is, whatever the type of the source.
C4_SkipStatsPlaceholders ==
    entry = "RescaleEnergyEtc" /\ ~initialize =>
        /\ calls = <<>>
        /\ pc # "error"
        /\ pc = "done" =>
              /\ result.kind = "RescaleOutput"
              /\ result.val.scale_by =
                    (IF config.global_rescale_scale = NoneV THEN NoneV ELSE Float(1, 1))
              /\ result.val.shift_by =
                    (IF config.global_rescale_shift = NoneV THEN NoneV ELSE Float(0, 1))

\* C4 happens: a request string as scale source, initialize false, wrapper built
C4_Witness ==
    /\ entry = "RescaleEnergyEtc"
    /\ ~initialize
    /\ pc = "done"
    /\ config.global_rescale_scale = Str(<<"dataset", U, "energy", U, "std">>)
    /\ config.global_rescale_shift = DictV
    /\ result.val.scale_by = Float(1, 1)
    /\ result.val.shift_by = Float(0, 1)
    /\ calls = <<>>

\* C5: in RescaleEnergyEtc with initialize true each source is judged by its
\* own type.  When both are a request string, a number, a tensor or None the
\* call does not fail with the invalid-source-type error and a None source is
\* emitted as None; when one is of another type the call fails with that
\* error before any dataset.statistics call, whatever the other source is.
\* (Stated for float numbers; calls with an int source are left aside.)
C5_SourcesValidatedIndependently ==
    ( /\ entry = "RescaleEnergyEtc"
      /\ initialize
      /\ ScaleSource.t # "int"
      /\ GlobalShiftSource.t # "int" ) =>
        LET Valid(x) == x.t \in {"str", "float", "tensor", "None"}
        IN  /\ Valid(ScaleSource) /\ Valid(GlobalShiftSource) =>
                  /\ error # "InvalidScaleSourceType"
                  /\ pc = "done" /\ ScaleSource = NoneV => result.val.scale_by = NoneV
                  /\ pc = "done" /\ GlobalShiftSource = NoneV => result.val.shift_by = NoneV
            /\ ~(Valid(ScaleSource) /\ Valid(GlobalShiftSource)) =>
                  /\ calls = <<>>
                  /\ pc \in {"RescaleEnergyEtc", "RescaleEnergyEtc_validate", "error"}
                  /\ pc = "error" => error = "InvalidScaleSourceType"

C7_ConflictingShiftFails ==
    ( /\ entry = "PerSpecieRescale"
      /\ config.global_rescale_shift.t \notin {"absent", "None"}
      /\ config.PerSpeciesScaleShift_shifts.t \notin {"absent", "None"} )
    => /\ pc \in {"PerSpecieRescale", "error"}
       /\ pc = "error" => error = "ConflictingShiftConfigError"
       /\ calls = <<>>
       /\ model = <<>>
       /\ result = NoResult

\* C7 happens: both shifts configured, initialize false, the call has failed
C7_Witness ==
    /\ entry = "PerSpecieRescale"
    /\ ~initialize
    /\ config.global_rescale_shift = Float(1, 1)
    /\ config.PerSpeciesScaleShift_shifts.t = "float"
    /\ pc = "error"
    /\ error = "ConflictingShiftConfigError"

\* The per-species scales the inserted module is built with: the builder
\* receives config as shared_params and no other value
ModuleScales == Get(model[1].shared_params, "PerSpeciesScaleShift_scales", NoneV)

\* C8: in PerSpecieRescale with initialize true the inserted module is built
\* with the value of scales after lines 204-212: the resolved scales divided
\* element-wise by the global scale when that is not None, the resolved scales
\* unchanged when it is None.  Resolved scales [2.0, 4.0] with a global scale
\* of 2.0 give module scales [1.0, 2.0].
C8_ModuleBuiltWithNormalizedScales ==
    entry = "PerSpecieRescale" /\ initialize /\ pc = "done" =>
        /\ ModuleScales = scales
        /\ ( /\ dataset = "varied"
             /\ config.PerSpeciesScaleShift_scales.t = "str"
             /\ config.global_rescale_scale = Float(2, 1) )
           => ModuleScales = Tensor(<<<<1, 1>>, <<2, 1>>>>)

\* C10: a configurator call that ended in an error returned nothing and left
\* the model as it was; a module is in the model only when PerSpecieRescale
\* has completed, after the conflict check and, with initialize true, after
\* the one dataset.statistics call; no call invokes dataset.statistics twice.
C10_AllOrNothing ==
    /\ error # "none" <=> pc = "error"
    /\ pc = "error" => result = NoResult /\ model = <<>>
    /\ Len(calls) <= 1
    /\ model # <<>> =>
          /\ entry = "PerSpecieRescale"
          /\ pc = "done"
          /\ Len(model) = 1
          /\ result.kind = "model"
          /\ global_shift = NoneV
          /\ initialize => Len(calls) = 1
    /\ result.kind = "RescaleOutput" => entry = "RescaleEnergyEtc" /\ pc = "done"

\* C10 happens: PerSpecieRescale failed while normalizing the scales, after
\* validation and the dataset.statistics call, and the model is untouched
C10_Witness ==
    /\ entry = "PerSpecieRescale"
    /\ pc = "error"
    /\ error = "TypeError"
    /\ Len(calls) = 1
    /\ model = <<>>
    /\ result = NoResult

===========================================================================
